---- MODULE Spec2Model ----
(***************************************************************************)
(* Cooperative tick scheduler (Scheduler.hpp / Scheduler.cpp).             *)
(*                                                                         *)
(* The scheduler object holds sys_tick_ctr_, systick_interval_, num_tasks_ *)
(* and task_table_; the task tables live in caller-owned memory (mem).     *)
(* The counter type uint32_t is scaled down: every counter computation is  *)
(* taken modulo Modulus (2^32 in the code, 2^2 here).                      *)
(*                                                                         *)
(* run() is split at the points where the tick interrupt can be served:    *)
(* loop test with counter snapshot, task body, last_called_ update,        *)
(* return.  Variables whose names start with g are history variables:      *)
(* they are written by the actions and never read by a guard or by an      *)
(* assignment to program state (gtick only bounds the exploration).        *)
(***************************************************************************)
EXTENDS Integers, Sequences, FiniteSets, TLC

VARIABLES
    sys_tick_ctr_,      \* Scheduler::sys_tick_ctr_
    systick_interval_,  \* Scheduler::systick_interval_
    num_tasks_,         \* Scheduler::num_tasks_
    task_table_,        \* Scheduler::task_table_ (NULL or the bound table)
    mem,                \* caller memory: table -> position -> Task
    pc,                 \* position of the main context inside run()
    i,                  \* loop variable of run()
    sysctr,             \* local snapshot of run()
    gop,                \* history: the last call of the main context, if it was
                        \* init() (with what it returned) or setTickInterval()
    gcalls,             \* history: positions invoked by the current run()
    gtick,              \* history: ticks added since the last successful init
                        \* (since construction, before the first one)
    gsnap,              \* history: gtick at the snapshot held in sysctr
    glast,              \* history: gtick at the snapshot of each task's last firing
    gfirst              \* history: no run() has returned since the last successful init

vars == <<sys_tick_ctr_, systick_interval_, num_tasks_, task_table_, mem,
          pc, i, sysctr, gop, gcalls, gtick, gsnap, glast, gfirst>>

----------------------------------------------------------------------------
(* Bounds of the model *)

\* the counter wraps at Modulus (2^32 in the code)
Modulus == 4
\* length of the caller's task array
TableLen == 2

----------------------------------------------------------------------------
(* Constants and arithmetic of the counter type *)

UINT32_MAX == Modulus - 1

NULL == "NULL"

Fn == "fn"

\* glast of a task that has not been invoked since the last successful init
NoFire == 0 - 1

Wrap(x) == x % Modulus

\* ticks explored after a successful init: one wraparound and one more
MaxTicks == Modulus + 1

\* the intervals the caller gives its tasks: continuous, short, longest
Intervals == {0, 2, UINT32_MAX}

\* the values passed as systick_interval
Steps == {1, 2}

Positions == 0 .. (TableLen - 1)

\* Task::Task(func, interval): last_called_ starts at 0
Task(func, interval) ==
    [func |-> func, interval |-> interval, last_called_ |-> 0]

\* the tables the caller has constructed
Tables == DOMAIN mem

----------------------------------------------------------------------------
(* Pure pieces of the code *)

\* (variant: the + 1 left out)
InitLastCalled_NoPlusOne(interval) == Wrap(UINT32_MAX - interval)

\* init: UINT32_MAX - interval + 1 in uint32_t
InitLastCalled(interval) == Wrap(UINT32_MAX - interval + 1)

\* (variant: the counter stops at its maximum instead of wrapping)
TickValue_Saturate(ctr, step) ==
    IF ctr + step > UINT32_MAX THEN UINT32_MAX ELSE ctr + step

\* (variant: the counter is incremented, the step is ignored)
TickValue_Increment(ctr, step) == Wrap(ctr + 1)

\* tick: sys_tick_ctr_ += systick_interval_
TickValue(ctr, step) == Wrap(ctr + step)

\* (variant: due one tick before the interval has elapsed)
IsDue_Early(snapshot, last, interval) ==
    Wrap(snapshot - last + Modulus) + 1 >= interval

\* (variant: due one tick after the interval has elapsed)
IsDue_Late(snapshot, last, interval) ==
    Wrap(snapshot - last + Modulus) > interval

\* run: sysctr - last_called_ >= interval, the difference taken in uint32_t
IsDue(snapshot, last, interval) == Wrap(snapshot - last + Modulus) >= interval

\* (variant: the validation loop stops one entry early)
HasNullFunc_SkipLast(table, n) == \E k \in 0 .. (n - 2) : table[k].func = NULL

\* init: the validation loop over the first n entries
HasNullFunc(table, n) == \E k \in 0 .. (n - 1) : table[k].func = NULL

\* init: the two early returns
InitFails(t, n) == t = NULL \/ HasNullFunc(mem[t], n)

\* getTickCount()
getTickCount == sys_tick_ctr_

----------------------------------------------------------------------------
InitState(tables) ==
    /\ sys_tick_ctr_ = 0
    /\ systick_interval_ = 1
    /\ num_tasks_ = 0
    /\ task_table_ = NULL
    /\ mem \in [tables -> [Positions -> {Task(Fn, iv) : iv \in Intervals}]]
    /\ pc = "idle"
    /\ i = 0
    /\ sysctr = 0
    /\ gop = "none"
    /\ gcalls = <<>>
    /\ gtick = 0
    /\ gsnap = 0
    /\ glast = [t \in tables |-> [k \in Positions |-> NoFire]]
    /\ gfirst = FALSE

Init == InitState({"tableA"})

----------------------------------------------------------------------------
(* init(taskTable, num_tasks, systick_interval) *)

\* (variant: the table is bound but the counter keeps running)
InitCall_KeepsCounter(t, n, step) ==
    /\ pc = "idle"
    /\ systick_interval_' = step
    /\ IF InitFails(t, n)
       THEN /\ gop' = "init_false"
            /\ UNCHANGED <<num_tasks_, task_table_, mem, sys_tick_ctr_,
                           gtick, glast, gfirst>>
       ELSE /\ task_table_' = t
            /\ num_tasks_' = n
            /\ mem' = [mem EXCEPT ![t] =
                   [k \in Positions |->
                       IF k < n
                       THEN [mem[t][k] EXCEPT
                               !.last_called_ = InitLastCalled(mem[t][k].interval)]
                       ELSE mem[t][k]]]
            /\ sys_tick_ctr_' = sys_tick_ctr_
            /\ gop' = "init_true"
            /\ gtick' = 0
            /\ glast' = [glast EXCEPT ![t] = [k \in Positions |-> NoFire]]
            /\ gfirst' = TRUE
    /\ UNCHANGED <<pc, i, sysctr, gcalls, gsnap>>

InitCall(t, n, step) ==
    /\ pc = "idle"
    /\ systick_interval_' = step
    /\ IF InitFails(t, n)
       THEN /\ gop' = "init_false"
            /\ UNCHANGED <<num_tasks_, task_table_, mem, sys_tick_ctr_,
                           gtick, glast, gfirst>>
       ELSE /\ task_table_' = t
            /\ num_tasks_' = n
            /\ mem' = [mem EXCEPT ![t] =
                   [k \in Positions |->
                       IF k < n
                       THEN [mem[t][k] EXCEPT
                               !.last_called_ = InitLastCalled(mem[t][k].interval)]
                       ELSE mem[t][k]]]
            /\ sys_tick_ctr_' = 0
            /\ gop' = "init_true"
            /\ gtick' = 0
            /\ glast' = [glast EXCEPT ![t] = [k \in Positions |-> NoFire]]
            /\ gfirst' = TRUE
    /\ UNCHANGED <<pc, i, sysctr, gcalls, gsnap>>

\* num_tasks as passed by the caller: the length of its array, or one less
InitArgs(t) == IF t = NULL THEN {0} ELSE (TableLen - 1) .. TableLen

init3 ==
    \E t \in Tables \cup {NULL} : \E n \in InitArgs(t) : \E step \in Steps :
        InitCall(t, n, step)

\* init(taskTable, num_tasks): systick_interval = 1
init2 ==
    \E t \in Tables : InitCall(t, TableLen, 1)

----------------------------------------------------------------------------
(* tick(), callable from the timer interrupt at any point of run() *)

TickAdvance ==
    /\ gtick + systick_interval_ <= MaxTicks
    /\ sys_tick_ctr_' = TickValue(sys_tick_ctr_, systick_interval_)
    /\ gtick' = gtick + systick_interval_

\* return sys_tick_ctr_ += systick_interval_: the value after the addition
tickReturn == sys_tick_ctr_'

tick ==
    /\ TickAdvance
    /\ gop' = "none"
    /\ UNCHANGED <<systick_interval_, num_tasks_, task_table_, mem,
                   pc, i, sysctr, gcalls, gsnap, glast, gfirst>>

\* (variant: the counter is reset as init() resets it)
SetStep_ResetsCounter(step) ==
    /\ pc = "idle"
    /\ systick_interval_' = step
    /\ sys_tick_ctr_' = 0
    /\ gop' = "setTickInterval"
    /\ UNCHANGED <<num_tasks_, task_table_, mem,
                   pc, i, sysctr, gcalls, gtick, gsnap, glast, gfirst>>

SetStep(step) ==
    /\ pc = "idle"
    /\ systick_interval_' = step
    /\ gop' = "setTickInterval"
    /\ UNCHANGED <<sys_tick_ctr_, num_tasks_, task_table_, mem,
                   pc, i, sysctr, gcalls, gtick, gsnap, glast, gfirst>>

setTickInterval == \E step \in Steps : SetStep(step)

----------------------------------------------------------------------------
(* The caller overwrites Task::func of one of its descriptors *)

SetFunc ==
    /\ pc = "idle"
    /\ \E t \in Tables : \E k \in Positions : \E f \in {NULL, Fn} :
        /\ mem[t][k].func # f
        /\ mem' = [mem EXCEPT ![t][k].func = f]
    /\ gop' = "none"
    /\ UNCHANGED <<sys_tick_ctr_, systick_interval_, num_tasks_, task_table_,
                   pc, i, sysctr, gcalls, gtick, gsnap, glast, gfirst>>

----------------------------------------------------------------------------
(* run() *)

\* task_table_[i]
Cur == mem[task_table_][i]

RunEnter ==
    /\ pc = "idle"
    /\ pc' = "loop"
    /\ i' = 0
    /\ gop' = "none"
    /\ UNCHANGED <<sys_tick_ctr_, systick_interval_, num_tasks_, task_table_,
                   mem, sysctr, gcalls, gtick, gsnap, glast, gfirst>>

\* (variant: the snapshot anticipates the next tick)
RunSnapshot_Ahead ==
    /\ pc = "loop"
    /\ IF i < num_tasks_
       THEN /\ sysctr' = TickValue(sys_tick_ctr_, systick_interval_)
            /\ gsnap' = gtick + systick_interval_
            /\ pc' = "body"
       ELSE /\ pc' = "ret"
            /\ UNCHANGED <<sysctr, gsnap>>
    /\ UNCHANGED <<sys_tick_ctr_, systick_interval_, num_tasks_, task_table_,
                   mem, i, gop, gcalls, gtick, glast, gfirst>>

\* the loop test i < num_tasks_ and sysctr = sys_tick_ctr_
RunSnapshot ==
    /\ pc = "loop"
    /\ IF i < num_tasks_
       THEN /\ sysctr' = sys_tick_ctr_
            /\ gsnap' = gtick
            /\ pc' = "body"
       ELSE /\ pc' = "ret"
            /\ UNCHANGED <<sysctr, gsnap>>
    /\ UNCHANGED <<sys_tick_ctr_, systick_interval_, num_tasks_, task_table_,
                   mem, i, gop, gcalls, gtick, glast, gfirst>>

\* (variant: a null action is skipped, the loop goes on)
Dispatch_SkipNull(task, snapshot) ==
    IF task.func = NULL THEN "continue"
    ELSE IF task.interval = 0 THEN "call"
    ELSE IF IsDue(snapshot, task.last_called_, task.interval) THEN "call_update"
    ELSE "continue"

\* (variant: no branch for interval 0, every task takes the periodic path)
Dispatch_NoContinuous(task, snapshot) ==
    IF task.func = NULL THEN "break"
    ELSE IF IsDue(snapshot, task.last_called_, task.interval) THEN "call_update"
    ELSE "continue"

\* what the body does with the entry: break, call, call and update, continue
Dispatch(task, snapshot) ==
    IF task.func = NULL THEN "break"
    ELSE IF task.interval = 0 THEN "call"
    ELSE IF IsDue(snapshot, task.last_called_, task.interval) THEN "call_update"
    ELSE "continue"

\* (variant: an entry that is not due gets its last_called_ refreshed)
RunBody_TouchNotDue ==
    /\ pc = "body"
    /\ LET d == Dispatch(Cur, sysctr) IN
        /\ pc' = CASE d = "break" -> "ret"
                   [] d = "call_update" -> "update"
                   [] OTHER -> "loop"
        /\ i' = IF d \in {"call", "continue"} THEN i + 1 ELSE i
        /\ gcalls' = IF d \in {"call", "call_update"} THEN Append(gcalls, i) ELSE gcalls
        /\ sysctr' = IF d = "call_update" THEN sysctr ELSE 0
        /\ gsnap' = IF d = "call_update" THEN gsnap ELSE 0
        /\ mem' = IF d = "continue"
                  THEN [mem EXCEPT ![task_table_][i].last_called_ = sysctr]
                  ELSE mem
    /\ UNCHANGED <<sys_tick_ctr_, systick_interval_, num_tasks_, task_table_,
                   gop, gtick, glast, gfirst>>

\* the null test, the interval tests and the call of the task
\* (sysctr is dead once the body is left without an update; it is cleared)
RunBody ==
    /\ pc = "body"
    /\ LET d == Dispatch(Cur, sysctr) IN
        /\ pc' = CASE d = "break" -> "ret"
                   [] d = "call_update" -> "update"
                   [] OTHER -> "loop"
        /\ i' = IF d \in {"call", "continue"} THEN i + 1 ELSE i
        /\ gcalls' = IF d \in {"call", "call_update"} THEN Append(gcalls, i) ELSE gcalls
        /\ sysctr' = IF d = "call_update" THEN sysctr ELSE 0
        /\ gsnap' = IF d = "call_update" THEN gsnap ELSE 0
    /\ UNCHANGED <<sys_tick_ctr_, systick_interval_, num_tasks_, task_table_,
                   mem, gop, gtick, glast, gfirst>>

\* (variant: last_called_ moves on by one interval from its old value)
RunUpdate_ByPeriod ==
    /\ pc = "update"
    /\ mem' = [mem EXCEPT ![task_table_][i].last_called_ =
                   Wrap(Cur.last_called_ + Cur.interval)]
    /\ glast' = [glast EXCEPT ![task_table_][i] = gsnap]
    /\ i' = i + 1
    /\ pc' = "loop"
    /\ sysctr' = 0
    /\ gsnap' = 0
    /\ UNCHANGED <<sys_tick_ctr_, systick_interval_, num_tasks_, task_table_,
                   gop, gcalls, gtick, gfirst>>

\* (variant: the scan starts again at the first entry after an update)
RunUpdate_Rescan ==
    /\ pc = "update"
    /\ mem' = [mem EXCEPT ![task_table_][i].last_called_ = sysctr]
    /\ glast' = [glast EXCEPT ![task_table_][i] = gsnap]
    /\ i' = 0
    /\ pc' = "loop"
    /\ sysctr' = 0
    /\ gsnap' = 0
    /\ UNCHANGED <<sys_tick_ctr_, systick_interval_, num_tasks_, task_table_,
                   gop, gcalls, gtick, gfirst>>

\* (variant: the counter is read again for the update)
RunUpdate_LiveCounter ==
    /\ pc = "update"
    /\ mem' = [mem EXCEPT ![task_table_][i].last_called_ = sys_tick_ctr_]
    /\ glast' = [glast EXCEPT ![task_table_][i] = gsnap]
    /\ i' = i + 1
    /\ pc' = "loop"
    /\ sysctr' = 0
    /\ gsnap' = 0
    /\ UNCHANGED <<sys_tick_ctr_, systick_interval_, num_tasks_, task_table_,
                   gop, gcalls, gtick, gfirst>>

\* task_table_[i].last_called_ = sysctr, after the task has returned
RunUpdate ==
    /\ pc = "update"
    /\ mem' = [mem EXCEPT ![task_table_][i].last_called_ = sysctr]
    /\ glast' = [glast EXCEPT ![task_table_][i] = gsnap]
    /\ i' = i + 1
    /\ pc' = "loop"
    /\ sysctr' = 0
    /\ gsnap' = 0
    /\ UNCHANGED <<sys_tick_ctr_, systick_interval_, num_tasks_, task_table_,
                   gop, gcalls, gtick, gfirst>>

RunReturn ==
    /\ pc = "ret"
    /\ pc' = "idle"
    /\ i' = 0
    /\ gcalls' = <<>>
    /\ gfirst' = FALSE
    /\ UNCHANGED <<sys_tick_ctr_, systick_interval_, num_tasks_, task_table_,
                   mem, sysctr, gop, gtick, gsnap, glast>>

----------------------------------------------------------------------------
Next ==
    \/ init3
    \/ init2
    \/ tick
    \/ setTickInterval
    \/ SetFunc
    \/ RunEnter
    \/ RunSnapshot
    \/ RunBody
    \/ RunUpdate
    \/ RunReturn

Spec == Init /\ [][Next]_vars

----------------------------------------------------------------------------
(* The driver loop of a tick-per-cycle application: the step is 1, the     *)
(* table is never modified, and every tick() is followed by a run()        *)
(* before the next tick().                                                 *)

LockInit == \E t \in Tables : \E n \in InitArgs(t) : InitCall(t, n, 1)

\* tick() at the top of the driver loop, then the entry of run()
TickThenRun ==
    /\ pc = "idle"
    /\ TickAdvance
    /\ pc' = "loop"
    /\ i' = 0
    /\ gop' = "none"
    /\ UNCHANGED <<systick_interval_, num_tasks_, task_table_, mem,
                   sysctr, gcalls, gsnap, glast, gfirst>>

NextLockstep ==
    \/ LockInit
    \/ TickThenRun
    \/ RunEnter
    \/ RunSnapshot
    \/ RunBody
    \/ RunUpdate
    \/ RunReturn

SpecLockstep == Init /\ [][NextLockstep]_vars

----------------------------------------------------------------------------
(* An application that owns two task arrays and re-initializes the         *)
(* scheduler with one or the other; it leaves the descriptors and the      *)
(* step alone between the calls of init.                                   *)

\* each of the two arrays holds at most one periodic task
InitReinit ==
    /\ InitState({"tableA", "tableB"})
    /\ \A t \in DOMAIN mem :
          Cardinality({k \in Positions : mem[t][k].interval > 0}) <= 1

NextReinit ==
    \/ init3
    \/ init2
    \/ tick
    \/ RunEnter
    \/ RunSnapshot
    \/ RunBody
    \/ RunUpdate
    \/ RunReturn

SpecReinit == InitReinit /\ [][NextReinit]_vars

----------------------------------------------------------------------------
(* An application with one array of short-period tasks, so that several    *)
(* periods fit between two wraparounds of the counter; it calls init,      *)
(* tick and run in any order and leaves the descriptors alone.             *)

ShortIntervals == {1, 2}

InitShort ==
    /\ sys_tick_ctr_ = 0
    /\ systick_interval_ = 1
    /\ num_tasks_ = 0
    /\ task_table_ = NULL
    /\ mem \in [{"tableA"} -> [Positions -> {Task(Fn, iv) : iv \in ShortIntervals}]]
    /\ pc = "idle"
    /\ i = 0
    /\ sysctr = 0
    /\ gop = "none"
    /\ gcalls = <<>>
    /\ gtick = 0
    /\ gsnap = 0
    /\ glast = [t \in {"tableA"} |-> [k \in Positions |-> NoFire]]
    /\ gfirst = FALSE

SpecShort == InitShort /\ [][NextReinit]_vars

----------------------------------------------------------------------------
(* The driver loop running for ever: init once at boot with any step, then *)
(* tick(); run(); without end.  The number of ticks since init grows       *)
(* without bound here, so this specification does not track it: gtick      *)
(* stays as init left it.                                                  *)

BootInit ==
    /\ task_table_ = NULL
    /\ \E t \in Tables : \E n \in InitArgs(t) : \E step \in Steps :
          InitCall(t, n, step)

\* tick() at the top of the driver loop, then the entry of run()
TickThenRunForever ==
    /\ pc = "idle"
    /\ task_table_ # NULL
    /\ sys_tick_ctr_' = TickValue(sys_tick_ctr_, systick_interval_)
    /\ pc' = "loop"
    /\ i' = 0
    /\ gop' = "none"
    /\ UNCHANGED <<systick_interval_, num_tasks_, task_table_, mem,
                   sysctr, gcalls, gtick, gsnap, glast, gfirst>>

NextForever ==
    \/ BootInit
    \/ TickThenRunForever
    \/ RunSnapshot
    \/ RunBody
    \/ RunUpdate
    \/ RunReturn

\* the driver loop never stops and every run() runs to its return
SpecForever == Init /\ [][NextForever]_vars /\ WF_vars(NextForever)

----------------------------------------------------------------------------
(* Vocabulary of the properties *)

Bound == task_table_ # NULL

Slots == 0 .. (num_tasks_ - 1)

IsNull(k) == mem[task_table_][k].func = NULL

\* position of the first null action among the bound entries, num_tasks_ if none
FirstNull ==
    IF \E k \in Slots : IsNull(k)
    THEN CHOOSE k \in Slots : IsNull(k) /\ \A j \in Slots : IsNull(j) => k <= j
    ELSE num_tasks_

\* number of invocations of position k recorded for the current run()
Calls(k) == Cardinality({j \in DOMAIN gcalls : gcalls[j] = k})

IntervalOf(k) == mem[task_table_][k].interval

LastCalledOf(k) == mem[task_table_][k].last_called_

\* the step is the call init(t, n, step); the first conjuncts only spare the
\* evaluation of InitCall on the steps that cannot be that call
IsInitCall(t, n, step) ==
    /\ systick_interval_' = step
    /\ gop' = "init_true" => (task_table_' = t /\ num_tasks_' = n)
    /\ InitCall(t, n, step)

\* only an init step leaves gop at a return value of init
MayBeInit == pc = "idle" /\ gop' \in {"init_true", "init_false"}

\* a step of run() (its entry included) or a tick served while run() is active
InRun == pc # "idle" \/ pc' # "idle"

\* a step of run() itself
run == RunEnter \/ RunSnapshot \/ RunBody \/ RunUpdate \/ RunReturn

----------------------------------------------------------------------------
(* C1: the first run() after a successful init, with no tick advance in   *)
(* between, invokes every entry of the bound table exactly once, whatever  *)
(* its interval (entries cut off by a null action the caller stored after  *)
(* init are not tasks of the table any more).                              *)
C1_FirstRunFiresAll ==
    (pc = "ret" /\ gfirst /\ gtick = 0) =>
        \A k \in Slots : k < FirstNull => Calls(k) = 1

C1_Witness ==
    /\ pc = "ret" /\ gfirst /\ gtick = 0
    /\ num_tasks_ = TableLen /\ FirstNull = num_tasks_
    /\ IntervalOf(0) = UINT32_MAX
    /\ IntervalOf(1) = 0
    /\ \A k \in Slots : Calls(k) = 1

(* C2: when a periodic task is invoked and it was invoked before since the *)
(* last successful init, at least interval ticks have been added between   *)
(* the snapshot of the earlier invocation and the snapshot of this one.    *)
C2_NoEarlyRefire ==
    (pc = "update" /\ glast[task_table_][i] # NoFire) =>
        gsnap - glast[task_table_][i] >= Cur.interval

C2_Witness ==
    /\ pc = "update"
    /\ glast[task_table_][i] # NoFire
    /\ Cur.interval = 2
    /\ gsnap - glast[task_table_][i] = 2

(* C3: with step 1 and a run() after every tick(), a periodic task is      *)
(* invoked exactly interval ticks after its previous invocation (never     *)
(* earlier, and after a completed run() it is never overdue), also when    *)
(* the counter wrapped between the two invocations.                        *)
C3_ExactPeriod ==
    /\ (pc = "update" /\ glast[task_table_][i] # NoFire) =>
           gsnap - glast[task_table_][i] = Cur.interval
    /\ pc = "ret" =>
           \A k \in Slots : (IntervalOf(k) > 0 /\ glast[task_table_][k] # NoFire) =>
               gtick - glast[task_table_][k] < IntervalOf(k)

C3_Witness ==
    /\ pc = "update"
    /\ glast[task_table_][i] # NoFire
    /\ sysctr < Cur.last_called_
    /\ gsnap - glast[task_table_][i] = Cur.interval

(* C4: on a bound scheduler every run() invokes exactly once each          *)
(* continuous entry (interval 0) that has a non-null action and no null    *)
(* action before it, whatever the counter is, and no step of run()         *)
(* changes the last_called_ of a continuous entry.                         *)
C4_ContinuousEveryRun ==
    [][ /\ (Bound' /\ pc' = "ret") =>
              \A k \in Slots' :
                  (k < FirstNull' /\ IntervalOf(k)' = 0) => Calls(k)' = 1
        /\ InRun =>
              \A t \in Tables : \A k \in Positions :
                  mem[t][k].interval = 0 =>
                      mem'[t][k].last_called_ = mem[t][k].last_called_
      ]_vars

C4_Witness ==
    /\ pc = "ret" /\ Bound /\ ~gfirst
    /\ sys_tick_ctr_ # 0
    /\ num_tasks_ = TableLen /\ FirstNull = num_tasks_
    /\ IntervalOf(0) > 0 /\ IntervalOf(1) = 0
    /\ gcalls = <<1>>

(* C5: init returns false exactly when the table is null or one of the     *)
(* first num_tasks entries has a null action; a failed init changes no     *)
(* last_called_, no entry of any table, not the binding, not the count     *)
(* and not the value getTickCount() returns.                               *)
C5_InitFailure ==
    [][ MayBeInit =>
        \A t \in Tables \cup {NULL} : \A n \in InitArgs(t) : \A step \in Steps :
          IsInitCall(t, n, step) =>
            /\ gop' = "init_false" <=>
                  (t = NULL \/ \E k \in 0 .. (n - 1) : mem[t][k].func = NULL)
            /\ gop' = "init_false" =>
                  /\ mem' = mem
                  /\ task_table_' = task_table_
                  /\ num_tasks_' = num_tasks_
                  /\ getTickCount' = getTickCount
      ]_vars

C5_Witness ==
    /\ gop = "init_false"
    /\ Bound
    /\ gtick > 0
    /\ mem[task_table_][0].func # NULL
    /\ mem[task_table_][1].func = NULL
    /\ LastCalledOf(0) # InitLastCalled(IntervalOf(0))

(* C6 (as claimed): a failed init on a bound scheduler leaves every field  *)
(* of the scheduler state as it was: binding, count, counter, step and     *)
(* every last_called_.                                                     *)
C6_FailedReinitKeepsAll ==
    [][ (Bound /\ MayBeInit) =>
        \A t \in Tables \cup {NULL} : \A n \in InitArgs(t) : \A step \in Steps :
          (IsInitCall(t, n, step) /\ gop' = "init_false") =>
              UNCHANGED <<sys_tick_ctr_, systick_interval_, num_tasks_,
                          task_table_, mem>>
      ]_vars

C8_TickAdds ==
    [][ tick =>
          /\ sys_tick_ctr_' = (sys_tick_ctr_ + systick_interval_) % Modulus
          /\ tickReturn = (sys_tick_ctr_ + systick_interval_) % Modulus
          /\ UNCHANGED <<systick_interval_, num_tasks_, task_table_, mem>>
      ]_vars

C8_Witness ==
    /\ gtick >= Modulus
    /\ sys_tick_ctr_ = gtick - Modulus
    /\ systick_interval_ = 2
    /\ sys_tick_ctr_ = 0

\* the positions a run() entered now would invoke, the counter staying as it is
DueSet ==
    IF Bound
    THEN {k \in Slots : k < FirstNull /\
             (IntervalOf(k) = 0 \/
              IsDue(sys_tick_ctr_, LastCalledOf(k), IntervalOf(k)))}
    ELSE {}

(* C9: setTickInterval(v) sets the step to v and changes nothing else      *)
(* (counter, binding, count, every last_called_), so the set of entries a  *)
(* run() would invoke is the same before and after; a tick() adds the step *)
(* in force, and the step changes only by setTickInterval and init.        *)
C9_SetTickIntervalFrame ==
    [][ /\ \A v \in Steps :
              SetStep(v) =>
                /\ systick_interval_' = v
                /\ UNCHANGED <<sys_tick_ctr_, num_tasks_, task_table_, mem>>
                /\ DueSet' = DueSet
        /\ tick => sys_tick_ctr_' = Wrap(sys_tick_ctr_ + systick_interval_)
        /\ systick_interval_' # systick_interval_ =>
              gop' \in {"setTickInterval", "init_true", "init_false"}
      ]_vars

C9_Witness ==
    /\ gop = "setTickInterval"
    /\ Bound
    /\ sys_tick_ctr_ # 0
    /\ systick_interval_ = 2
    /\ DueSet # {} /\ DueSet # Slots

(* C10 (as claimed): while no init has succeeded, run() invokes nothing    *)
(* and modifies nothing, tick() leaves the counter unchanged, and the      *)
(* scheduler becomes bound only by a successful init.                      *)
C10_UninitializedNoOp ==
    [][ ~Bound =>
          /\ tick => sys_tick_ctr_' = sys_tick_ctr_
          /\ InRun => /\ gcalls' = <<>>
                      /\ UNCHANGED <<systick_interval_, num_tasks_,
                                     task_table_, mem>>
          /\ Bound' => gop' = "init_true"
      ]_vars

C12_FirstRunAlwaysDue ==
    (pc = "ret" /\ gfirst) =>
        \A k \in Slots :
            (k < FirstNull /\ IntervalOf(k) > 0) => Calls(k) = 1

\* ticks added between the snapshot of the last firing of the entry under
\* evaluation and the snapshot held in sysctr, counted without wraparound
Elapsed == gsnap - glast[task_table_][i]

(* C13: when run() evaluates a periodic entry that has been invoked since  *)
(* the last successful init, and fewer than Modulus ticks were added since *)
(* the snapshot of that invocation, the difference sysctr - last_called_   *)
(* taken in the counter type equals that number of ticks, and the entry is *)
(* invoked if and only if that number is at least its interval.            *)
C13_DueTestIsElapsed ==
    (/\ pc = "body"
     /\ Cur.func # NULL
     /\ Cur.interval > 0
     /\ glast[task_table_][i] # NoFire
     /\ Elapsed < Modulus) =>
        /\ Wrap(sysctr - Cur.last_called_ + Modulus) = Elapsed
        /\ Dispatch(Cur, sysctr) = "call_update" <=> Elapsed >= Cur.interval

\* the counter wrapped since the last firing and the entry is due
C13_Witness ==
    /\ pc = "body"
    /\ Cur.func # NULL
    /\ Cur.interval = 2
    /\ glast[task_table_][i] # NoFire
    /\ Elapsed = UINT32_MAX
    /\ sysctr < Cur.last_called_
    /\ Dispatch(Cur, sysctr) = "call_update"

(* C14 (as claimed): on a bound scheduler whose driver calls tick() and    *)
(* then run() for ever, with any step >= 1, every periodic entry of the    *)
(* bound table is invoked again and again.                                 *)
C14_NeverStuck ==
    \A k \in Positions :
        (task_table_ # NULL /\ k < num_tasks_ /\ IntervalOf(k) > 0)
            ~> (pc = "update" /\ i = k)

(* C15: the snapshot run() holds for an entry is the value the counter had *)
(* when it was read, however many ticks were added since; a periodic entry *)
(* is invoked only if the due test passes on that snapshot, and the        *)
(* last_called_ of an entry that has been invoked is the snapshot of that  *)
(* invocation, not the counter at the time of the update, so the ticks     *)
(* added after the snapshot are not lost for the next period.              *)
C15_SnapshotStored ==
    /\ pc \in {"body", "update"} =>
          /\ sysctr = Wrap(gsnap)
          /\ gsnap <= gtick
    /\ pc = "update" =>
          /\ Cur.interval > 0
          /\ IsDue(sysctr, Cur.last_called_, Cur.interval)
    /\ Bound =>
          \A k \in Slots :
              glast[task_table_][k] # NoFire =>
                  /\ LastCalledOf(k) = Wrap(glast[task_table_][k])
                  /\ glast[task_table_][k] <= gtick

\* entry i - 1 has just been invoked and updated; two ticks or more were
\* added since its snapshot and the counter differs from the value stored
C15_Witness ==
    /\ pc = "loop" /\ Bound
    /\ i > 0
    /\ gcalls # <<>>
    /\ gcalls[Len(gcalls)] = i - 1
    /\ IntervalOf(i - 1) > 0
    /\ glast[task_table_][i - 1] # NoFire
    /\ gtick >= glast[task_table_][i - 1] + 2
    /\ sys_tick_ctr_ # LastCalledOf(i - 1)

(* C16: the positions invoked by one run() are positions of the bound      *)
(* table in strictly increasing order, so no entry is invoked twice; when  *)
(* entry i is evaluated every invocation made so far was of an earlier     *)
(* position and has returned; this holds for every choice of intervals and *)
(* every counter value.                                                    *)
C16_TableOrder ==
    /\ \A a \in DOMAIN gcalls : gcalls[a] \in 0 .. (num_tasks_ - 1)
    /\ \A a, b \in DOMAIN gcalls : a < b => gcalls[a] < gcalls[b]
    /\ pc \in {"loop", "body"} => \A a \in DOMAIN gcalls : gcalls[a] < i
    /\ pc = "update" => (gcalls # <<>> /\ gcalls[Len(gcalls)] = i)
    /\ pc = "idle" => gcalls = <<>>

\* a run() after the first one, at a wrapped counter, that invoked a
\* periodic entry and then a continuous one
C16_Witness ==
    /\ pc = "ret" /\ Bound /\ ~gfirst
    /\ gtick > Modulus
    /\ IntervalOf(0) = 2 /\ IntervalOf(1) = 0
    /\ gcalls = <<0, 1>>

(* C17: no step of run() changes the counter, the step, the binding, the   *)
(* count, or the func or interval of any entry of any table; the only      *)
(* thing run() writes is the last_called_ of the periodic entry of the     *)
(* bound table it has just invoked, which takes the snapshot, so entries   *)
(* that are not due and continuous entries keep their last_called_.  The   *)
(* counter changes only in a tick() and in a successful init, which sets   *)
(* it to 0.                                                                *)
C17_RunFrame ==
    [][ /\ run =>
            /\ UNCHANGED <<sys_tick_ctr_, systick_interval_, task_table_, num_tasks_>>
            /\ \A t \in Tables : \A k \in Positions :
                  /\ mem'[t][k].func = mem[t][k].func
                  /\ mem'[t][k].interval = mem[t][k].interval
                  /\ mem'[t][k].last_called_ # mem[t][k].last_called_ =>
                        /\ t = task_table_ /\ k = i
                        /\ mem[t][k].interval > 0
                        /\ gcalls # <<>> /\ gcalls[Len(gcalls)] = k
                        /\ mem'[t][k].last_called_ = sysctr
        /\ sys_tick_ctr_' # sys_tick_ctr_ =>
              \/ tick
              \/ (MayBeInit /\ gop' = "init_true" /\ sys_tick_ctr_' = 0)
      ]_vars

\* end of a run() that found entry 0 not due and invoked entry 1: entry 0
\* keeps the snapshot of its earlier invocation
C17_Witness ==
    /\ pc = "ret" /\ Bound /\ ~gfirst
    /\ sys_tick_ctr_ # 0
    /\ IntervalOf(0) = UINT32_MAX /\ IntervalOf(1) = 2
    /\ gcalls = <<1>>
    /\ glast[task_table_][0] # NoFire
    /\ glast[task_table_][0] < glast[task_table_][1]
    /\ LastCalledOf(0) = Wrap(glast[task_table_][0])
    /\ LastCalledOf(0) # LastCalledOf(1)

(* C18: a periodic entry is invoked at most once in a run(), however many  *)
(* of its periods have passed; an entry evaluated with no tick added since *)
(* the snapshot of its last invocation is not invoked; and when an entry   *)
(* is dispatched late (two intervals or more after its last invocation),   *)
(* then right after the update it is due at exactly the counter values     *)
(* that lie interval ticks or more after the snapshot of this dispatch,    *)
(* so it is not due again at once for the periods it missed.               *)
C18_NoCatchUp ==
    /\ [](\A k \in Positions : Calls(k) <= 1)
    /\ []((/\ pc = "body"
           /\ Cur.interval > 0
           /\ glast[task_table_][i] # NoFire
           /\ Elapsed = 0) => Dispatch(Cur, sysctr) # "call_update")
    /\ [][ (/\ RunUpdate
            /\ glast[task_table_][i] # NoFire
            /\ Elapsed >= 2 * Cur.interval) =>
              /\ Calls(i) = 1
              /\ \A d \in 0 .. UINT32_MAX :
                    IsDue(Wrap(sysctr + d), mem'[task_table_][i].last_called_,
                          Cur.interval) <=> d >= Cur.interval
          ]_vars

\* an entry with interval 1 dispatched three ticks after its last invocation
C18_Witness ==
    /\ pc = "update"
    /\ Cur.interval = 1
    /\ glast[task_table_][i] # NoFire
    /\ Elapsed = 3
    /\ sysctr < Cur.last_called_
    /\ Calls(i) = 1

(* C19: on a bound scheduler the last_called_ of every periodic entry of   *)
(* the bound table is its init value (Modulus - interval) mod Modulus as   *)
(* long as the entry has not been invoked since the last successful init,  *)
(* and otherwise the counter value of the snapshot of its last invocation; *)
(* counted without wraparound since that init, the tick count of that      *)
(* snapshot is never above the current tick count.                         *)
C19_LastCalledOrigin ==
    Bound =>
        \A k \in Slots :
            IntervalOf(k) > 0 =>
                IF glast[task_table_][k] = NoFire
                THEN LastCalledOf(k) = (Modulus - IntervalOf(k)) % Modulus
                ELSE /\ LastCalledOf(k) = glast[task_table_][k] % Modulus
                     /\ 0 <= glast[task_table_][k]
                     /\ glast[task_table_][k] <= gtick

\* entry 0 was invoked after the wraparound, a tick came before the snapshot
\* for entry 1, which is not due and still has its init value
C19_Witness ==
    /\ pc = "ret" /\ Bound
    /\ num_tasks_ = TableLen
    /\ IntervalOf(0) = 2 /\ IntervalOf(1) = UINT32_MAX
    /\ gcalls = <<0>>
    /\ glast[task_table_][0] = Modulus
    /\ gtick > Modulus
    /\ glast[task_table_][1] = NoFire
    /\ LastCalledOf(1) = InitLastCalled(UINT32_MAX)

====
